---- MODULE Spec2Model ----
(***************************************************************************)
(* Hospital management dashboard (src/app_backup.py) and the standalone    *)
(* seeding script (src/database_setup.py).                                 *)
(*                                                                         *)
(* The store hospital.db is modelled as four tables, each the sequence of  *)
(* its rows in insertion order.  One run of the Streamlit script is two    *)
(* steps: init_db() at module level (line 168), then the body of the page  *)
(* that is selected.  Texts are TLA+ strings, read character by character  *)
(* with SubSeq.                                                            *)
(*                                                                         *)
(* Streamlit runs the script of every browser session in a thread of its   *)
(* own.  The second specification, SpecSessions, runs the script in two    *)
(* sessions at once, one SQL statement at a time: there pc, last and out   *)
(* hold one value per session.                                             *)
(***************************************************************************)
EXTENDS Integers, Sequences, FiniteSets, TLC

VARIABLES
    file,          \* condition of hospital.db: "ok", "corrupt", "unopenable"
    schema,        \* TRUE once the CREATE TABLE statements have run
    departments,   \* rows of table departments
    doctors,       \* rows of table doctors
    patients,      \* rows of table patients
    appointments,  \* rows of table appointments
    newdb,         \* hospital_new.db, written by create_hospital_database
    pc,            \* "start": the script is about to call init_db; "page": the page body runs
    last,          \* the operation that ran last, with the inputs it was given
    out,           \* what that operation showed or returned
    conn           \* per session, the connection it holds open between two steps

vars ==
    <<file, schema, departments, doctors, patients, appointments, newdb, pc, last, out, conn>>

tables == <<departments, doctors, patients, appointments>>

\* Number of rows the forms may add in one behaviour (all tables together).
MaxInserts == 2

-----------------------------------------------------------------------------
(* Text helpers *)

Char(s, i) == SubSeq(s, i, i)

UpperLetters == "ABCDEFGHIJKLMNOPQRSTUVWXYZ"

LowerLetters == "abcdefghijklmnopqrstuvwxyz"

\* The lower-case letter of each upper-case letter.
LowerOf ==
    [c \in {Char(UpperLetters, i) : i \in 1..26} |->
        Char(LowerLetters, CHOOSE i \in 1..26 : Char(UpperLetters, i) = c)]

\* str.lower() on one character (the texts of the model are ASCII).
LowerChar(c) == IF c \in DOMAIN LowerOf THEN LowerOf[c] ELSE c

RECURSIVE Lower(_)
Lower(s) == IF s = "" THEN "" ELSE LowerChar(Char(s, 1)) \o Lower(SubSeq(s, 2, Len(s)))

\* Python's `k in s` for strings.
Contains(s, k) == \E i \in 1..(Len(s) - Len(k) + 1) : SubSeq(s, i, i + Len(k) - 1) = k

Digits == "0123456789"

\* Decimal text of a natural number, as an f-string renders an integer.
RECURSIVE Decimal(_)
Decimal(n) ==
    IF n < 10 THEN Char(Digits, n + 1)
    ELSE Decimal(n \div 10) \o Char(Digits, (n % 10) + 1)

\* Two-digit zero-padded field of strftime (%m, %d, %I, %M).
Pad2(n) == IF n < 10 THEN "0" \o Decimal(n) ELSE Decimal(n)

\* date.strftime('%Y-%m-%d') of a date <<year, month, day>> (year >= 1000).
FormatDate(d) == Decimal(d[1]) \o "-" \o Pad2(d[2]) \o "-" \o Pad2(d[3])

\* time.strftime('%I:%M %p') of a time <<hour, minute>>: 12-hour clock.
FormatTime(t) ==
    LET h12 == IF t[1] % 12 = 0 THEN 12 ELSE t[1] % 12
    IN  Pad2(h12) \o ":" \o Pad2(t[2]) \o " " \o (IF t[1] < 12 THEN "AM" ELSE "PM")

\* SQLite's LIKE: % matches any run of characters, _ exactly one, letters
\* compare without regard to ASCII case.
RECURSIVE Like(_, _)
Like(p, s) ==
    IF p = "" THEN s = ""
    ELSE LET h == Char(p, 1)
             t == SubSeq(p, 2, Len(p))
         IN  IF h = "%" THEN \E k \in 0..Len(s) : Like(t, SubSeq(s, k + 1, Len(s)))
             ELSE IF s = "" THEN FALSE
             ELSE IF h = "_" THEN Like(t, SubSeq(s, 2, Len(s)))
             ELSE LowerChar(h) = LowerChar(Char(s, 1)) /\ Like(t, SubSeq(s, 2, Len(s)))

-----------------------------------------------------------------------------
(* Rows and inserts.  Every primary key is INTEGER PRIMARY KEY              *)
(* AUTOINCREMENT and no statement deletes a row, so the key of a new row is *)
(* the number of rows plus one.                                             *)

NextId(t) == Len(t) + 1

DepartmentRow(id, p) == [dept_id |-> id, dept_name |-> p[1], location |-> p[2]]

DoctorRow(id, p) ==
    [doctor_id |-> id, name |-> p[1], specialization |-> p[2], dept_id |-> p[3],
     phone |-> p[4], email |-> p[5], experience |-> p[6], consultation_fee |-> p[7]]

PatientRow(id, p) ==
    [patient_id |-> id, name |-> p[1], age |-> p[2], gender |-> p[3], phone |-> p[4],
     email |-> p[5], address |-> p[6], blood_group |-> p[7], registration_date |-> p[8]]

AppointmentRow(id, p) ==
    [appointment_id |-> id, patient_id |-> p[1], doctor_id |-> p[2],
     appointment_date |-> p[3], appointment_time |-> p[4], status |-> p[5], reason |-> p[6]]

\* INSERT INTO patients (...) VALUES (?, ...): one row appended.
InsertPatient(t, p) == Append(t, PatientRow(NextId(t), p))

InsertDoctor(t, p) == Append(t, DoctorRow(NextId(t), p))

InsertAppointment(t, p) == Append(t, AppointmentRow(NextId(t), p))

-----------------------------------------------------------------------------
(* Seed data of init_db *)

SeedDepartments ==
    << <<"Cardiology", "Building A">>, <<"Neurology", "Building B">>,
       <<"Orthopedics", "Building C">>, <<"Pediatrics", "Building D">>,
       <<"Emergency", "Building E">> >>

SeedDoctors ==
    << <<"Dr. Ahmed Khan", "Cardiologist", 1, "0300-1234567", "ahmed@hospital.com", 15, 2000>>,
       <<"Dr. Sara Ali", "Neurologist", 2, "0301-2345678", "sara@hospital.com", 10, 2500>>,
       <<"Dr. Hassan Raza", "Orthopedic Surgeon", 3, "0302-3456789", "hassan@hospital.com", 12, 1800>>,
       <<"Dr. Fatima Noor", "Pediatrician", 4, "0303-4567890", "fatima@hospital.com", 8, 1500>>,
       <<"Dr. Usman Malik", "Emergency Physician", 5, "0304-5678901", "usman@hospital.com", 7, 1200>> >>

SeedPatients ==
    << <<"Ali Hassan", 35, "Male", "0311-1111111", "ali@email.com", "Karachi", "O+", "2024-01-15">>,
       <<"Ayesha Khan", 28, "Female", "0312-2222222", "ayesha@email.com", "Lahore", "A+", "2024-01-20">>,
       <<"Bilal Ahmed", 42, "Male", "0313-3333333", "bilal@email.com", "Islamabad", "B+", "2024-02-10">>,
       <<"Zainab Ali", 55, "Female", "0314-4444444", "zainab@email.com", "Karachi", "AB+", "2024-02-15">>,
       <<"Hamza Malik", 30, "Male", "0315-5555555", "hamza@email.com", "Lahore", "O-", "2024-03-01">> >>

SeedAppointments ==
    << <<1, 1, "2024-03-15", "10:00 AM", "Completed", "Chest pain">>,
       <<2, 2, "2024-03-16", "11:00 AM", "Completed", "Headache">>,
       <<3, 3, "2024-03-17", "02:00 PM", "Scheduled", "Knee pain">>,
       <<4, 4, "2024-03-18", "09:00 AM", "Scheduled", "Child checkup">>,
       <<5, 5, "2024-03-19", "03:00 PM", "Cancelled", "Emergency">> >>

\* c.executemany("INSERT INTO departments ...", depts), and the three like it.
InsertDepartments(t, ps) == t \o [i \in 1..Len(ps) |-> DepartmentRow(Len(t) + i, ps[i])]

InsertDoctors(t, ps) == t \o [i \in 1..Len(ps) |-> DoctorRow(Len(t) + i, ps[i])]

InsertPatients(t, ps) == t \o [i \in 1..Len(ps) |-> PatientRow(Len(t) + i, ps[i])]

InsertAppointments(t, ps) == t \o [i \in 1..Len(ps) |-> AppointmentRow(Len(t) + i, ps[i])]

-----------------------------------------------------------------------------
(* What an operation shows: a kind and a text, or a kind and rows. *)

Shown(kind, text) == [kind |-> kind, text |-> text, rows |-> <<>>]

Frame(rows) == [kind |-> "frame", text |-> "", rows |-> rows]

Nothing == Shown("none", "")

-----------------------------------------------------------------------------
(* Connections.  Every operation opens its own connection with              *)
(* sqlite3.connect(DB_NAME) and closes it before it returns.  Python's      *)
(* sqlite3 begins a transaction before the first INSERT of a connection;    *)
(* SQLite gives the write lock of the file to that connection until its     *)
(* commit, and until then no other connection sees the rows or can write: a *)
(* second writer waits in the busy handler.                                 *)

Sessions == {1, 2}

\* No connection, or one with no transaction open.
Closed == [writing |-> FALSE, pending |-> <<>>]

\* A connection inside a transaction: it holds the write lock, and `pending`
\* is the four tables as its commit will leave them.
Writing(d, doc, p, a) == [writing |-> TRUE, pending |-> <<d, doc, p, a>>]

\* The INSERT of session s can take the write lock: no other connection is
\* inside a transaction.
WriteLockFreeMutant(s) == TRUE

WriteLockFree(s) == \A t \in Sessions \ {s} : ~conn[t].writing

-----------------------------------------------------------------------------
(* init_db *)

\* sqlite3.connect(DB_NAME) raises OperationalError when the file cannot be
\* opened (a directory, a missing parent directory).
ConnectRaises(f) == f = "unopenable"

\* c.execute("SELECT 1") reads no page of the file: it succeeds on any file
\* that could be opened, a file that is no database included.
ProbeRaisesMutant(f) == TRUE

ProbeRaises(f) == FALSE

\* CREATE TABLE IF NOT EXISTS reads the schema: on a file that is no database
\* it raises sqlite3.DatabaseError, outside the try block.
CreateRaises(f) == f = "corrupt"

\* c.execute("SELECT COUNT(*) FROM departments"); c.fetchone()[0] == 0
MustSeedMutant(d) == TRUE

MustSeed(d) == Len(d) = 0

SetTables(d, doc, p, a) ==
    /\ departments' = d
    /\ doctors' = doc
    /\ patients' = p
    /\ appointments' = a

InitDb ==
    /\ pc = "start"
    /\ last' = [op |-> "init_db"]
    /\ UNCHANGED <<newdb, conn>>
    /\ IF ConnectRaises(file)
       THEN \* the OperationalError is a DatabaseError: the handler runs and
            \* conn.close() fails, conn having never been bound
            /\ out' = Shown("exception", "UnboundLocalError")
            /\ pc' = "start"
            /\ UNCHANGED <<file, schema, tables>>
       ELSE LET recover == ProbeRaises(file)
                \* os.remove(DB_NAME) and a fresh connection
                f1 == IF recover THEN "ok" ELSE file
                s1 == IF recover THEN FALSE ELSE schema
                t1 == IF recover THEN <<<<>>, <<>>, <<>>, <<>>>> ELSE tables
            IN  IF CreateRaises(f1)
                THEN /\ out' = Shown("exception", "DatabaseError")
                     /\ pc' = "start"
                     /\ file' = f1
                     /\ schema' = s1
                     /\ SetTables(t1[1], t1[2], t1[3], t1[4])
                ELSE /\ file' = f1
                     /\ schema' = TRUE
                     /\ IF MustSeed(t1[1])
                        THEN /\ departments' = InsertDepartments(t1[1], SeedDepartments)
                             /\ doctors' = InsertDoctors(t1[2], SeedDoctors)
                             /\ patients' = InsertPatients(t1[3], SeedPatients)
                             /\ appointments' = InsertAppointments(t1[4], SeedAppointments)
                        ELSE SetTables(t1[1], t1[2], t1[3], t1[4])
                     /\ out' = Shown("ok", "")
                     /\ pc' = "page"

-----------------------------------------------------------------------------
(* create_hospital_database (src/database_setup.py) *)

NewDepartmentRow(id, p) ==
    [dept_id |-> id, dept_name |-> p[1], head_doctor |-> p[2], location |-> p[3], phone |-> p[4]]

NewDoctorRow(id, p) ==
    [doctor_id |-> id, name |-> p[1], specialization |-> p[2], dept_id |-> p[3],
     phone |-> p[4], email |-> p[5], experience_years |-> p[6], consultation_fee |-> p[7]]

NewPatientRow(id, p) ==
    [patient_id |-> id, name |-> p[1], age |-> p[2], gender |-> p[3], phone |-> p[4],
     email |-> p[5], address |-> p[6], emergency_contact |-> p[7], blood_group |-> p[8],
     registration_date |-> p[9]]

NewAppointmentRow(id, p) ==
    [appointment_id |-> id, patient_id |-> p[1], doctor_id |-> p[2],
     appointment_date |-> p[3], appointment_time |-> p[4], status |-> p[5],
     reason |-> p[6], notes |-> p[7]]

MedicalRecordRow(id, p) ==
    [record_id |-> id, patient_id |-> p[1], doctor_id |-> p[2], visit_date |-> p[3],
     diagnosis |-> p[4], prescription |-> p[5], treatment |-> p[6],
     follow_up_date |-> p[7], cost |-> p[8]]

departments_data ==
    << <<"Cardiology", "Dr. Ahmed Khan", "Block A, Floor 2", "021-1234567">>,
       <<"Neurology", "Dr. Sarah Ali", "Block B, Floor 3", "021-2345678">>,
       <<"Orthopedics", "Dr. Hassan Sheikh", "Block C, Floor 1", "021-3456789">>,
       <<"Pediatrics", "Dr. Fatima Malik", "Block A, Floor 1", "021-4567890">>,
       <<"Emergency", "Dr. Omar Siddiqui", "Ground Floor", "021-5678901">> >>

doctors_data ==
    << <<"Dr. Ahmed Khan", "Cardiologist", 1, "0300-1234567", "ahmed.khan@hospital.com", 15, 3000>>,
       <<"Dr. Sarah Ali", "Neurologist", 2, "0300-2345678", "sarah.ali@hospital.com", 12, 3500>>,
       <<"Dr. Hassan Sheikh", "Orthopedic Surgeon", 3, "0300-3456789", "hassan.sheikh@hospital.com", 18, 4000>>,
       <<"Dr. Fatima Malik", "Pediatrician", 4, "0300-4567890", "fatima.malik@hospital.com", 10, 2500>>,
       <<"Dr. Omar Siddiqui", "Emergency Medicine", 5, "0300-5678901", "omar.siddiqui@hospital.com", 8, 2000>>,
       <<"Dr. Zainab Qureshi", "Cardiologist", 1, "0300-6789012", "zainab.qureshi@hospital.com", 7, 2800>>,
       <<"Dr. Ali Raza", "Neurologist", 2, "0300-7890123", "ali.raza@hospital.com", 5, 3200>> >>

patients_data ==
    << <<"Muhammad Asif", 45, "Male", "0301-1111111", "asif@email.com", "Karachi, Pakistan", "0302-2222222", "B+", "2024-01-15">>,
       <<"Ayesha Khan", 32, "Female", "0301-3333333", "ayesha@email.com", "Lahore, Pakistan", "0302-4444444", "A+", "2024-01-20">>,
       <<"Bilal Ahmed", 28, "Male", "0301-5555555", "bilal@email.com", "Islamabad, Pakistan", "0302-6666666", "O+", "2024-02-01">>,
       <<"Sana Malik", 35, "Female", "0301-7777777", "sana@email.com", "Faisalabad, Pakistan", "0302-8888888", "AB+", "2024-02-10">>,
       <<"Ahmed Ali", 50, "Male", "0301-9999999", "ahmed@email.com", "Peshawar, Pakistan", "0302-0000000", "B-", "2024-02-15">> >>

appointments_data ==
    << <<1, 1, "2024-12-20", "10:00 AM", "Scheduled", "Chest pain", "Regular checkup">>,
       <<2, 2, "2024-12-21", "2:00 PM", "Completed", "Headache", "MRI recommended">>,
       <<3, 3, "2024-12-22", "11:00 AM", "Scheduled", "Knee pain", "X-ray required">>,
       <<4, 4, "2024-12-23", "9:00 AM", "Scheduled", "Child fever", "Routine checkup">>,
       <<5, 5, "2024-12-19", "8:00 PM", "Completed", "Emergency", "Accident case">> >>

medical_records_data ==
    << <<1, 1, "2024-12-15", "Hypertension", "Amlodipine 5mg daily", "Lifestyle changes recommended", "2025-01-15", 3000>>,
       <<2, 2, "2024-12-10", "Migraine", "Sumatriptan as needed", "Stress management", "2024-12-25", 3500>>,
       <<5, 5, "2024-12-19", "Fracture - Right arm", "Cast applied", "Surgery not required", "2025-01-02", 15000>> >>

\* hospital_new.db before the script has ever run: no table.
NoTables ==
    [created |-> FALSE, departments |-> <<>>, doctors |-> <<>>, patients |-> <<>>,
     appointments |-> <<>>, medical_records |-> <<>>]

NewDoctorsMutant == [i \in 1..5 |-> NewDoctorRow(i, doctors_data[i])]

NewDoctors == [i \in 1..Len(doctors_data) |-> NewDoctorRow(i, doctors_data[i])]

\* The five DROP TABLE IF EXISTS and CREATE TABLE leave every table empty
\* whatever it held, so the executemany calls number the rows from 1.
CreateHospitalDatabase ==
    /\ newdb' =
         [created |-> TRUE,
          departments |-> [i \in 1..Len(departments_data) |-> NewDepartmentRow(i, departments_data[i])],
          doctors |-> NewDoctors,
          patients |-> [i \in 1..Len(patients_data) |-> NewPatientRow(i, patients_data[i])],
          appointments |-> [i \in 1..Len(appointments_data) |-> NewAppointmentRow(i, appointments_data[i])],
          medical_records |-> [i \in 1..Len(medical_records_data) |-> MedicalRecordRow(i, medical_records_data[i])]]
    /\ UNCHANGED <<file, schema, tables, pc, last, out, conn>>

-----------------------------------------------------------------------------
(* Query/report layer *)

Range(t) == {t[i] : i \in 1..Len(t)}

\* Rows the forms have added so far: every table grows by inserts only, and
\* init_db seeds 5 doctors, 5 patients and 5 appointments.
FormRows ==
    (Len(doctors) - Len(SeedDoctors)) + (Len(patients) - Len(SeedPatients))
      + (Len(appointments) - Len(SeedAppointments))

\* All orders of the finite set S.
Orders(S) ==
    {f \in [1..Cardinality(S) -> S] : \A i, j \in 1..Cardinality(S) : f[i] = f[j] => i = j}

\* get_stats: four COUNT(*) queries.
GetStats ==
    [patients |-> Len(patients), doctors |-> Len(doctors), appointments |-> Len(appointments),
     pending |-> Cardinality({a \in Range(appointments) : a.status = "Scheduled"})]

\* Patients page, View Patients tab: the search text is pasted into the
\* statement.  An empty text adds no WHERE clause.  A text with a quote
\* character ends the string literal early; with an odd number of quotes
\* (and no comment marker) the closing quote of the f-string opens a literal
\* that never ends and sqlite raises OperationalError.  Any other text with
\* quotes makes a statement of its own, which may select any rows.
CountQuotes(s) == Cardinality({i \in 1..Len(s) : Char(s, i) = "'"})

\* The pattern of f" WHERE name LIKE '%{search}%'".
SearchPatternMutant(search) == search \o "%"

SearchPattern(search) == "%" \o search \o "%"

SearchPatients(search, t) ==
    IF search = "" THEN {Frame(t)}
    ELSE IF CountQuotes(search) = 0
         THEN {Frame(SelectSeq(t, LAMBDA r : Like(SearchPattern(search), r.name)))}
    ELSE IF CountQuotes(search) % 2 = 1 /\ ~Contains(search, "--") /\ ~Contains(search, "/*")
         THEN {Shown("exception", "OperationalError")}
    ELSE {Shown("exception", "OperationalError")}
           \cup {Frame(SelectSeq(t, LAMBDA r : r.patient_id \in S)) :
                    S \in SUBSET {r.patient_id : r \in Range(t)}}

\* Doctors page: doctors LEFT JOIN departments.
DoctorListing ==
    [i \in 1..Len(doctors) |->
        LET d == doctors[i]
            dep == {x \in Range(departments) : x.dept_id = d.dept_id}
        IN  [doctor_id |-> d.doctor_id, name |-> d.name, specialization |-> d.specialization,
             dept_name |-> IF dep = {} THEN "NULL" ELSE (CHOOSE x \in dep : TRUE).dept_name,
             phone |-> d.phone, email |-> d.email, experience |-> d.experience,
             consultation_fee |-> d.consultation_fee]]

\* Rows of appointments JOIN patients JOIN doctors, in appointment order: an
\* appointment whose patient or doctor is missing has no row.
JoinedAppointments ==
    LET joins(a) == \E p \in Range(patients) : p.patient_id = a.patient_id
                    /\ \E d \in Range(doctors) : d.doctor_id = a.doctor_id
        kept == SelectSeq(appointments, joins)
    IN  [i \in 1..Len(kept) |->
            [a |-> kept[i],
             p |-> CHOOSE p \in Range(patients) : p.patient_id = kept[i].patient_id,
             d |-> CHOOSE d \in Range(doctors) : d.doctor_id = kept[i].doctor_id]]

\* Appointments page: the joined listing, filtered by status unless "All".
AppointmentListing(status_filter) ==
    LET j == IF status_filter = "All" THEN JoinedAppointments
             ELSE SelectSeq(JoinedAppointments, LAMBDA r : r.a.status = status_filter)
    IN  [i \in 1..Len(j) |->
            [appointment_id |-> j[i].a.appointment_id, Patient |-> j[i].p.name,
             Doctor |-> j[i].d.name, appointment_date |-> j[i].a.appointment_date,
             appointment_time |-> j[i].a.appointment_time, status |-> j[i].a.status,
             reason |-> j[i].a.reason]]

\* doctors d LEFT JOIN appointments a ON d.doctor_id = a.doctor_id, as pairs of
\* keys; a doctor without appointments joins once, with a NULL appointment (0).
DoctorsLeftJoinAppointments ==
    {<<d, a>> \in Range(doctors) \X Range(appointments) : d.doctor_id = a.doctor_id}
      \cup {<<d, [appointment_id |-> 0, status |-> "NULL"]>> :
              d \in {x \in Range(doctors) :
                       \A a \in Range(appointments) : a.doctor_id # x.doctor_id}}

\* WHERE a.status = 'Completed' of the revenue query.
RevenueWhereMutant(a) == TRUE

RevenueWhere(a) == a.status = "Completed"

\* Analytics page, Revenue by Doctor: one row for each (name, fee) group of the
\* joined rows that pass the WHERE clause; COUNT(a.appointment_id) counts the
\* rows of the group whose appointment is not NULL.
RevenueByDoctor ==
    LET kept == {j \in DoctorsLeftJoinAppointments : RevenueWhere(j[2])}
        groups == {<<j[1].name, j[1].consultation_fee>> : j \in kept}
        count(g) == Cardinality({<<j[1].doctor_id, j[2].appointment_id>> :
                        j \in {k \in kept : /\ k[1].name = g[1]
                                            /\ k[1].consultation_fee = g[2]
                                            /\ k[2].appointment_id # 0}})
    IN  {[name |-> g[1], fee |-> g[2], revenue |-> count(g) * g[2]] : g \in groups}

\* ORDER BY revenue DESC: any order of the rows with the revenues descending.
RevenueOrders ==
    {f \in Orders(RevenueByDoctor) :
        \A i, j \in 1..Len(f) : i < j => f[i].revenue >= f[j].revenue}

-----------------------------------------------------------------------------
(* ai_query *)

HelpText == "I can answer: patient count, top doctor, cardiology patients, average fee, emergency appointments"

\* The keyword tests of the if/elif chain, on the lower-cased query.
AsksPatientCount(q) ==
    (Contains(q, "patient") /\ Contains(q, "count")) \/ Contains(q, "how many patient")

AsksTopDoctor(q) == Contains(q, "doctor") /\ (Contains(q, "most") \/ Contains(q, "top"))

AsksCardiology(q) == Contains(q, "cardiology")

AsksAverageFee(q) == Contains(q, "fee") /\ Contains(q, "average")

AsksEmergency(q) == Contains(q, "emergency")

Response(text) == [kind |-> "response", text |-> text, rows |-> <<>>]

\* format(x, '.0f') of sum/n: to the nearest integer, ties to the even one.
RoundHalfEven(sum, n) ==
    LET q == sum \div n
        r == sum % n
    IN  IF 2 * r < n THEN q
        ELSE IF 2 * r > n THEN q + 1
        ELSE IF q % 2 = 0 THEN q ELSE q + 1

PatientCountAnswersMutant ==
    {Response("Total Patients: " \o Decimal(Len(doctors)))}

PatientCountAnswers ==
    {Response("Total Patients: " \o Decimal(Len(patients)))}

\* GROUP BY d.name ORDER BY count DESC LIMIT 1: any name whose count is the
\* greatest.  With no doctor at all result.iloc[0] raises IndexError.
TopDoctorAnswers ==
    LET names == {d.name : d \in Range(doctors)}
        count(n) == Cardinality({<<j[1].doctor_id, j[2].appointment_id>> :
                        j \in {k \in DoctorsLeftJoinAppointments :
                                 k[1].name = n /\ k[2].appointment_id # 0}})
    IN  IF names = {}
        THEN {Response("Error: single positional indexer is out-of-bounds")}
        ELSE {Response("Top Doctor: " \o n \o " with " \o Decimal(count(n)) \o " appointments") :
                n \in {m \in names : \A o \in names : count(o) <= count(m)}}

\* The frame itself stands for result.to_string().
CardiologyAnswers ==
    LET j == SelectSeq(JoinedAppointments, LAMBDA r : Like("%Cardio%", r.d.specialization))
    IN  IF Len(j) = 0 THEN {Response("No cardiology patients found")}
        ELSE {[kind |-> "response", text |-> "",
               rows |-> [i \in 1..Len(j) |->
                           [name |-> j[i].p.name, age |-> j[i].p.age, phone |-> j[i].p.phone]]]}

\* AVG over no row is NULL, and formatting None with .0f raises TypeError.
AverageFeeAnswers ==
    LET sum[i \in 0..Len(doctors)] ==
            IF i = 0 THEN 0 ELSE sum[i - 1] + doctors[i].consultation_fee
    IN  IF Len(doctors) = 0
        THEN {Response("Error: unsupported format string passed to NoneType.__format__")}
        ELSE {Response("Average Consultation Fee: Rs. "
                         \o Decimal(RoundHalfEven(sum[Len(doctors)], Len(doctors))))}

EmergencyAnswers ==
    LET j == SelectSeq(JoinedAppointments, LAMBDA r : Like("%Emergency%", r.d.specialization))
    IN  IF Len(j) = 0 THEN {Response("No emergency appointments")}
        ELSE {[kind |-> "response", text |-> "",
               rows |-> [i \in 1..Len(j) |->
                           [name |-> j[i].p.name, appointment_date |-> j[i].a.appointment_date,
                            reason |-> j[i].a.reason]]]}

\* query.lower()
QueryLower(query) == Lower(query)

\* A variant of the chain with the cardiology test ahead of the top-doctor test.
AiQueryMutant(query) ==
    LET query_lower == QueryLower(query)
    IN  IF AsksPatientCount(query_lower) THEN PatientCountAnswers
        ELSE IF AsksCardiology(query_lower) THEN CardiologyAnswers
        ELSE IF AsksTopDoctor(query_lower) THEN TopDoctorAnswers
        ELSE IF AsksAverageFee(query_lower) THEN AverageFeeAnswers
        ELSE IF AsksEmergency(query_lower) THEN EmergencyAnswers
        ELSE {Response(HelpText)}

\* ai_query(query): the set of strings it may return.
AiQuery(query) ==
    LET query_lower == QueryLower(query)
    IN  IF AsksPatientCount(query_lower) THEN PatientCountAnswers
        ELSE IF AsksTopDoctor(query_lower) THEN TopDoctorAnswers
        ELSE IF AsksCardiology(query_lower) THEN CardiologyAnswers
        ELSE IF AsksAverageFee(query_lower) THEN AverageFeeAnswers
        ELSE IF AsksEmergency(query_lower) THEN EmergencyAnswers
        ELSE {Response(HelpText)}

-----------------------------------------------------------------------------
(* Inputs of the pages *)

\* datetime.now(): the day and the time of day of the run.
Today == <<2024, 4, 1>>

Now == <<14, 5>>

PatientNames == {"", "Ali", "N_r", "O'B"}

DoctorNames == {"", "Dr. Ahmed Khan", "Dr. Zed"}

Specializations == {"", "Cardiologist"}

Fees == {2000}

Reasons == {"", "Checkup"}

SearchTexts == {"", "Ali", "a_i", "O'"}

StatusFilters == {"All", "Scheduled", "Completed", "Cancelled"}

Queries ==
    {"", "how many patients?", "How Many Patients?", "patient count", "count",
     "Which doctor has most appointments?", "top doctor patient count",
     "Show cardiology patients", "cardiology top doctor", "Average fee?",
     "average fee cardiology", "Emergency appointments", "EMERGENCY average fee",
     "xyzzy"}

\* The options of a selectbox filled from a table's keys: the first and the
\* newest row stand for the list.
EndsMutant(ids) == IF Len(ids) = 0 THEN {} ELSE {0, Len(ids) - 1}

Ends(ids) == IF Len(ids) = 0 THEN {} ELSE {ids[1], ids[Len(ids)]}

\* The department selectbox: its first option, the one preselected.
Oldest(ids) == IF Len(ids) = 0 THEN {} ELSE {ids[1]}

-----------------------------------------------------------------------------
(* Pages.  Each runs after init_db has returned, and ends the script run. *)

PageDone(op) ==
    /\ pc = "page"
    /\ pc' = "start"
    /\ last' = op
    /\ UNCHANGED <<file, schema, newdb, conn>>

\* if name: (a non-empty string is true)
NameGivenMutant(name) == TRUE

NameGiven(name) == name # ""

\* if name and spec:
DoctorGiven(name, spec) == name # "" /\ spec # ""

\* The tuple bound to the INSERT of the book_appointment form.
BookedParamsMutant(patient, doctor, date, time, reason) ==
    <<patient, doctor, FormatDate(date), FormatTime(time), "NULL", reason>>

BookedParams(patient, doctor, date, time, reason) ==
    <<patient, doctor, FormatDate(date), FormatTime(time), "Scheduled", reason>>

Dashboard ==
    /\ PageDone([op |-> "dashboard"])
    /\ out' = [kind |-> "frame", text |-> "", rows |-> <<GetStats>>]
    /\ UNCHANGED tables

AskAi ==
    \E query \in Queries :
        /\ PageDone([op |-> "ai_query", query |-> query])
        /\ IF query # ""
           THEN out' \in AiQuery(query)
           ELSE out' = Nothing
        /\ UNCHANGED tables

ViewPatients ==
    \E search \in SearchTexts :
        /\ PageDone([op |-> "view_patients", search |-> search])
        /\ out' \in SearchPatients(search, patients)
        /\ UNCHANGED tables

AddPatient ==
    \E name \in PatientNames :
        /\ PageDone([op |-> "add_patient", name |-> name])
        /\ IF NameGiven(name)
           THEN /\ FormRows < MaxInserts
                /\ patients' = InsertPatient(patients,
                        <<name, 30, "Male", "", "", "", "A+", FormatDate(Today)>>)
                /\ out' = Shown("success", "Patient " \o name \o " added!")
           ELSE /\ out' = Shown("error", "Name is required!")
                /\ UNCHANGED patients
        /\ UNCHANGED <<departments, doctors, appointments>>

ViewDoctors ==
    /\ PageDone([op |-> "view_doctors"])
    /\ out' = Frame(DoctorListing)
    /\ UNCHANGED tables

AddDoctor ==
    \E name \in DoctorNames, spec \in Specializations, fee \in Fees,
       dept \in Oldest([i \in 1..Len(departments) |-> departments[i].dept_id]) :
        /\ PageDone([op |-> "add_doctor", name |-> name, spec |-> spec])
        /\ IF DoctorGiven(name, spec)
           THEN /\ FormRows < MaxInserts
                /\ doctors' = InsertDoctor(doctors, <<name, spec, dept, "", "", 5, fee>>)
                /\ out' = Shown("success", "Doctor " \o name \o " added!")
           ELSE /\ out' = Shown("error", "Name and Specialization required!")
                /\ UNCHANGED doctors
        /\ UNCHANGED <<departments, patients, appointments>>

ViewAppointments ==
    \E status_filter \in StatusFilters :
        /\ PageDone([op |-> "view_appointments", status_filter |-> status_filter])
        /\ out' = Frame(AppointmentListing(status_filter))
        /\ UNCHANGED tables

BookAppointment ==
    \E patient \in Ends([i \in 1..Len(patients) |-> patients[i].patient_id]),
       doctor \in Ends([i \in 1..Len(doctors) |-> doctors[i].doctor_id]),
       reason \in Reasons :
        /\ PageDone([op |-> "book_appointment", patient |-> patient, doctor |-> doctor,
                     reason |-> reason])
        /\ FormRows < MaxInserts
        /\ appointments' = InsertAppointment(appointments,
                BookedParams(patient, doctor, Today, Now, reason))
        /\ out' = Shown("success", "Appointment booked!")
        /\ UNCHANGED <<departments, doctors, patients>>

Analytics ==
    \E revenue \in RevenueOrders :
        /\ PageDone([op |-> "analytics"])
        /\ out' = Frame(revenue)
        /\ UNCHANGED tables

-----------------------------------------------------------------------------

Init ==
    /\ file \in {"ok", "corrupt", "unopenable"}
    /\ schema = FALSE
    /\ departments = <<>>
    /\ doctors = <<>>
    /\ patients = <<>>
    /\ appointments = <<>>
    /\ newdb = NoTables
    /\ pc = "start"
    /\ last = [op |-> "none"]
    /\ out = Nothing
    /\ conn = [s \in Sessions |-> Closed]

Next ==
    \/ InitDb
    \/ CreateHospitalDatabase
    \/ Dashboard
    \/ AskAi
    \/ ViewPatients
    \/ AddPatient
    \/ ViewDoctors
    \/ AddDoctor
    \/ ViewAppointments
    \/ BookAppointment
    \/ Analytics

Spec == Init /\ [][Next]_vars

-----------------------------------------------------------------------------
(* Two sessions.  Each runs the script once: init_db, then the submission   *)
(* of one of the three write forms.  A step is one statement on the         *)
(* session's connection, or the statements up to the next one that reads or *)
(* writes rows.                                                             *)

Goto(s, label) == pc' = [pc EXCEPT ![s] = label]

\* conn.commit(); conn.close()
Commit(s) ==
    /\ SetTables(conn[s].pending[1], conn[s].pending[2], conn[s].pending[3],
                 conn[s].pending[4])
    /\ conn' = [conn EXCEPT ![s] = Closed]

\* init_db, lines 21-72: connect, SELECT 1, the four CREATE TABLE IF NOT
\* EXISTS (each committed as it runs).
SessionCreateTables(s) ==
    /\ pc[s] = "start"
    /\ schema' = TRUE
    /\ Goto(s, "count")
    /\ UNCHANGED <<file, tables, newdb, last, out, conn>>

\* init_db, lines 74-75: SELECT COUNT(*) FROM departments, read outside any
\* transaction, sees the committed rows.  With rows present the function
\* commits nothing and returns.
SessionCount(s) ==
    /\ pc[s] = "count"
    /\ last' = [last EXCEPT ![s] = [op |-> "init_db"]]
    /\ IF MustSeed(departments)
       THEN /\ Goto(s, "seed")
            /\ UNCHANGED out
       ELSE /\ Goto(s, "page")
            /\ out' = [out EXCEPT ![s] = Shown("ok", "")]
    /\ UNCHANGED <<file, schema, tables, newdb, conn>>

\* init_db, lines 76-105: the four executemany calls, in one transaction.
SessionSeed(s) ==
    /\ pc[s] = "seed"
    /\ WriteLockFree(s)
    /\ conn' = [conn EXCEPT ![s] =
                  Writing(InsertDepartments(departments, SeedDepartments),
                          InsertDoctors(doctors, SeedDoctors),
                          InsertPatients(patients, SeedPatients),
                          InsertAppointments(appointments, SeedAppointments))]
    /\ Goto(s, "seed_commit")
    /\ UNCHANGED <<file, schema, tables, newdb, last, out>>

\* init_db, lines 107-108.
SessionSeedCommit(s) ==
    /\ pc[s] = "seed_commit"
    /\ Commit(s)
    /\ out' = [out EXCEPT ![s] = Shown("ok", "")]
    /\ Goto(s, "page")
    /\ UNCHANGED <<file, schema, newdb, last>>

\* What a session can submit: the form, whether its required fields are
\* filled, the tuple bound to its INSERT and the message of its success.
Submissions ==
    {[op |-> "add_patient", ok |-> NameGiven(name),
      params |-> <<name, 30, "Male", "", "", "", "A+", FormatDate(Today)>>,
      error |-> "Name is required!", success |-> "Patient " \o name \o " added!"] :
        name \in PatientNames}
    \cup
    {[op |-> "add_doctor", ok |-> DoctorGiven(name, spec),
      params |-> <<name, spec, dept, "", "", 5, fee>>,
      error |-> "Name and Specialization required!",
      success |-> "Doctor " \o name \o " added!"] :
        name \in DoctorNames, spec \in Specializations, fee \in Fees,
        dept \in Oldest([i \in 1..Len(departments) |-> departments[i].dept_id])}
    \cup
    {[op |-> "book_appointment", ok |-> TRUE,
      params |-> BookedParams(patient, doctor, Today, Now, reason),
      error |-> "", success |-> "Appointment booked!"] :
        patient \in Ends([i \in 1..Len(patients) |-> patients[i].patient_id]),
        doctor \in Ends([i \in 1..Len(doctors) |-> doctors[i].doctor_id]),
        reason \in Reasons}

\* The tables after the INSERT of a submission.
Inserted(sub) ==
    CASE sub.op = "add_patient" ->
           <<departments, doctors, InsertPatient(patients, sub.params), appointments>>
      [] sub.op = "add_doctor" ->
           <<departments, InsertDoctor(doctors, sub.params), patients, appointments>>
      [] sub.op = "book_appointment" ->
           <<departments, doctors, patients, InsertAppointment(appointments, sub.params)>>

\* The key AUTOINCREMENT gives the row of a submission.
RowId(sub) ==
    CASE sub.op = "add_patient" -> NextId(patients)
      [] sub.op = "add_doctor" -> NextId(doctors)
      [] sub.op = "book_appointment" -> NextId(appointments)

\* The form is submitted: the required fields are checked, and c.execute
\* runs the INSERT once the write lock is free.
SessionSubmit(s) ==
    /\ pc[s] = "page"
    /\ \E sub \in Submissions :
          IF sub.ok
          THEN /\ WriteLockFree(s)
               /\ LET t == Inserted(sub)
                  IN  conn' = [conn EXCEPT ![s] = Writing(t[1], t[2], t[3], t[4])]
               /\ last' = [last EXCEPT ![s] =
                             [op |-> sub.op, params |-> sub.params, id |-> RowId(sub),
                              success |-> sub.success]]
               /\ Goto(s, "commit")
               /\ UNCHANGED out
          ELSE /\ last' = [last EXCEPT ![s] =
                             [op |-> sub.op, params |-> sub.params, id |-> 0,
                              success |-> sub.success]]
               /\ out' = [out EXCEPT ![s] = Shown("error", sub.error)]
               /\ Goto(s, "done")
               /\ UNCHANGED conn
    /\ UNCHANGED <<file, schema, tables, newdb>>

\* conn.commit(), conn.close(), st.success(...)
SessionCommit(s) ==
    /\ pc[s] = "commit"
    /\ Commit(s)
    /\ out' = [out EXCEPT ![s] = Shown("success", last[s].success)]
    /\ Goto(s, "done")
    /\ UNCHANGED <<file, schema, newdb, last>>

\* hospital.db is new, or an earlier run has seeded it.
SessionsInit ==
    /\ file = "ok"
    /\ \E seeded \in BOOLEAN :
          /\ schema = seeded
          /\ departments = IF seeded THEN InsertDepartments(<<>>, SeedDepartments) ELSE <<>>
          /\ doctors = IF seeded THEN InsertDoctors(<<>>, SeedDoctors) ELSE <<>>
          /\ patients = IF seeded THEN InsertPatients(<<>>, SeedPatients) ELSE <<>>
          /\ appointments =
                IF seeded THEN InsertAppointments(<<>>, SeedAppointments) ELSE <<>>
    /\ newdb = NoTables
    /\ pc = [s \in Sessions |-> "start"]
    /\ last = [s \in Sessions |-> [op |-> "none"]]
    /\ out = [s \in Sessions |-> Nothing]
    /\ conn = [s \in Sessions |-> Closed]

SessionsNext ==
    \E s \in Sessions :
        \/ SessionCreateTables(s)
        \/ SessionCount(s)
        \/ SessionSeed(s)
        \/ SessionSeedCommit(s)
        \/ SessionSubmit(s)
        \/ SessionCommit(s)

SpecSessions == SessionsInit /\ [][SessionsNext]_vars

-----------------------------------------------------------------------------
(* Properties *)

\* A step that runs the body of the page `op`.
PageStep(op) == pc = "page" /\ last'.op = op

\* A step that runs init_db.
InitDbStep == pc = "start" /\ last'.op = "init_db"

IsPrefix(s, t) == Len(s) <= Len(t) /\ SubSeq(t, 1, Len(s)) = s

Sizes == <<Len(departments), Len(doctors), Len(patients), Len(appointments)>>

\* C1: every submission of the Book Appointment form adds exactly one row to
\* appointments, after the rows already there, and its status is 'Scheduled',
\* whatever patient, doctor and reason were entered.
C1_BookingAddsOneScheduledRow ==
    [][PageStep("book_appointment") =>
          /\ Len(appointments') = Len(appointments) + 1
          /\ IsPrefix(appointments, appointments')
          /\ appointments'[Len(appointments')].status = "Scheduled"
          /\ appointments'[Len(appointments')].patient_id = last'.patient
          /\ appointments'[Len(appointments')].doctor_id = last'.doctor
          /\ appointments'[Len(appointments')].reason = last'.reason]_vars

C1_Witness ==
    /\ last.op = "book_appointment"
    /\ last.reason = "Checkup"
    /\ Len(appointments) = Len(SeedAppointments) + 2
    /\ appointments[Len(appointments)].doctor_id # appointments[Len(appointments) - 1].doctor_id

\* C2: init_db on an empty store leaves 5 departments, 5 doctors, 5 patients
\* and 5 appointments; create_hospital_database leaves 5, 7, 5 and 5.
C2_SeedSizes ==
    /\ [][(InitDbStep /\ Sizes = <<0, 0, 0, 0>> /\ pc' = "page") => Sizes' = <<5, 5, 5, 5>>]_vars
    /\ [](newdb.created =>
            <<Len(newdb.departments), Len(newdb.doctors), Len(newdb.patients),
              Len(newdb.appointments)>> = <<5, 7, 5, 5>>)

C2_Witness ==
    /\ last.op = "init_db"
    /\ pc = "page"
    /\ Sizes = <<5, 5, 5, 5>>
    /\ newdb.created

\* C3: init_db called on a store that holds rows changes no row of any table
\* and adds none.
C3_InitDbIdempotent ==
    [][(InitDbStep /\ Sizes # <<0, 0, 0, 0>>) => UNCHANGED tables]_vars

C3_Witness ==
    /\ last.op = "init_db"
    /\ pc = "page"
    /\ Len(patients) > Len(SeedPatients)
    /\ Len(appointments) > Len(SeedAppointments)

CompletedCount(d) ==
    Cardinality({a \in Range(appointments) :
                    a.doctor_id = d.doctor_id /\ a.status = "Completed"})

\* C4: the Revenue by Doctor report shows, for each doctor with a Completed
\* appointment, one row with the doctor's name and fee times the number of the
\* doctor's Completed appointments, and no other row: appointments that are
\* Scheduled or Cancelled add to no revenue.
C4_RevenueCountsCompletedOnly ==
    last.op = "analytics" =>
        /\ out.kind = "frame"
        /\ \A i \in 1..Len(out.rows) :
              \E d \in Range(doctors) :
                  /\ d.name = out.rows[i].name
                  /\ CompletedCount(d) > 0
                  /\ out.rows[i].revenue = d.consultation_fee * CompletedCount(d)
        /\ \A d \in Range(doctors) :
              CompletedCount(d) > 0 =>
                  \E i \in 1..Len(out.rows) :
                      /\ out.rows[i].name = d.name
                      /\ out.rows[i].revenue = d.consultation_fee * CompletedCount(d)
        /\ Len(out.rows) = Cardinality({d \in Range(doctors) : CompletedCount(d) > 0})

C4_Witness ==
    /\ last.op = "analytics"
    /\ \E a \in Range(appointments) :
          a.appointment_id > 5 /\ a.doctor_id = 1 /\ a.status = "Scheduled"
    /\ \E d \in Range(doctors) : d.doctor_id > 5 /\ d.name = "Dr. Ahmed Khan"
    /\ \E i \in 1..Len(out.rows) :
          out.rows[i].name = "Dr. Ahmed Khan" /\ out.rows[i].revenue = 2000

\* The texts that occur in s, the empty one included.
Substrings(s) == {""} \cup {SubSeq(s, i, j) : i, j \in 1..Len(s)}

HasWildcard(s) == Contains(s, "%") \/ Contains(s, "_")

\* name contains s, letters compared without regard to case.
ContainsFold(name, s) == Contains(Lower(name), Lower(s))

\* The state right after the add_patient form has stored a row.
PatientJustAdded == last.op = "add_patient" /\ out.kind = "success"

\* C5 as stated: after a patient is inserted, a search by any substring of the
\* name returns that row and no other.  (Over the non-empty substrings that
\* hold no quote character.)
C5_SearchReturnsOnlyInsertedRow ==
    PatientJustAdded =>
        \A s \in Substrings(last.name) :
            (s # "" /\ CountQuotes(s) = 0) =>
                SearchPatients(s, patients) = {Frame(<<patients[Len(patients)]>>)}

\* C5 amended: after a patient is inserted, a search by any substring of the
\* name that holds no quote character returns a result that contains the new
\* row, along with every stored row whose name contains the substring (case
\* ignored); with no % or _ in the substring these are all the rows returned.
C5_SearchFindsInsertedRow ==
    PatientJustAdded =>
        \A s \in Substrings(last.name) :
            CountQuotes(s) = 0 =>
                \A o \in SearchPatients(s, patients) :
                    /\ o.kind = "frame"
                    /\ patients[Len(patients)] \in Range(o.rows)
                    /\ patients[Len(patients)].name = last.name
                    /\ {r \in Range(patients) : ContainsFold(r.name, s)} \subseteq Range(o.rows)
                    /\ ~HasWildcard(s) =>
                          Range(o.rows) = {r \in Range(patients) : ContainsFold(r.name, s)}

C5_Witness ==
    /\ PatientJustAdded
    /\ last.name = "Ali"
    /\ \E o \in SearchPatients("li", patients) :
          /\ patients[Len(patients)] \in Range(o.rows)
          /\ Len(o.rows) > 1

\* The keyword tests in the order of the chain, and the answers of each.
Predicates(q) ==
    <<AsksPatientCount(q), AsksTopDoctor(q), AsksCardiology(q), AsksAverageFee(q),
      AsksEmergency(q)>>

BranchAnswers ==
    <<PatientCountAnswers, TopDoctorAnswers, CardiologyAnswers, AverageFeeAnswers,
      EmergencyAnswers>>

\* The first test that holds among the five of P, 0 when none does.
FirstHolding(P) ==
    IF \E i \in 1..5 : P[i]
    THEN CHOOSE i \in 1..5 : P[i] /\ \A j \in 1..(i - 1) : ~P[j]
    ELSE 0

\* C6: ai_query tests the lower-cased question in the order patient count, top
\* doctor, cardiology, average fee, emergency; the answer is one of the first
\* test that holds and of no other, and it is the help text exactly when no
\* test holds.
C6_FirstMatchingAnswer ==
    (last.op = "ai_query" /\ last.query # "") =>
        LET q == Lower(last.query)
            P == Predicates(q)
            k == FirstHolding(P)
            B == BranchAnswers
        IN  /\ k # 0 => /\ out \in B[k]
                        /\ \A j \in 1..5 : j # k => out \notin B[j]
            /\ out = Response(HelpText) <=> k = 0

C6_Witness ==
    /\ last.op = "ai_query"
    /\ last.query = "cardiology top doctor"
    /\ AsksCardiology(last.query)
    /\ out \in TopDoctorAnswers

\* C7: asked "how many patients?", ai_query returns a text that contains the
\* number of rows of patients at that moment, in decimal.
C7_PatientCountAnswer ==
    (last.op = "ai_query" /\ last.query = "how many patients?") =>
        /\ out.kind = "response"
        /\ Contains(out.text, ToString(Len(patients)))

C7_Witness ==
    /\ last.op = "ai_query"
    /\ last.query = "how many patients?"
    /\ Len(patients) = Len(SeedPatients) + 2
    /\ Len(doctors) = Len(SeedDoctors)
    /\ out.text = "Total Patients: 7"

\* C8: a submission of Add Patient with an empty name, or of Add Doctor with an
\* empty name or an empty specialization, shows an error and leaves every
\* table as it was.
C8_MissingFieldRejected ==
    [][(\/ PageStep("add_patient") /\ last'.name = ""
        \/ PageStep("add_doctor") /\ (last'.name = "" \/ last'.spec = ""))
          => (out'.kind = "error" /\ UNCHANGED tables)]_vars

C8_Witness ==
    /\ last.op = "add_doctor"
    /\ last.name # ""
    /\ last.spec = ""
    /\ out = Shown("error", "Name and Specialization required!")

\* C9: init_db started on a store that is corrupt or cannot be read returns
\* normally, with the store recreated, the tables created and the seed rows
\* inserted.
C9_InitDbRecovers ==
    [][(InitDbStep /\ file # "ok")
          => /\ out'.kind = "ok"
             /\ file' = "ok"
             /\ schema'
             /\ Sizes' = <<5, 5, 5, 5>>]_vars

\* C10: every step of the application keeps every stored row, with its field
\* values, at its place in its table; tables only grow at the end.
C10_AppendOnly ==
    [][/\ IsPrefix(departments, departments')
       /\ IsPrefix(doctors, doctors')
       /\ IsPrefix(patients, patients')
       /\ IsPrefix(appointments, appointments')]_vars

C10_Witness ==
    /\ last.op = "init_db"
    /\ pc = "page"
    /\ Len(doctors) > Len(SeedDoctors)
    /\ Len(appointments) > Len(SeedAppointments)
    /\ appointments[Len(appointments)].doctor_id = Len(doctors)

-----------------------------------------------------------------------------
(* Properties of two concurrent sessions (SpecSessions) *)

\* Session s has submitted a write form and has been told of its success.
Submitted(s) == pc[s] = "done" /\ out[s].kind = "success"

\* The stored row whose key is the one the INSERT of session s was given.
StoredRow(s) ==
    LET r == last[s]
    IN  CASE r.op = "add_patient" ->
               IF r.id \in 1..Len(patients) THEN {patients[r.id]} ELSE {}
          [] r.op = "add_doctor" ->
               IF r.id \in 1..Len(doctors) THEN {doctors[r.id]} ELSE {}
          [] r.op = "book_appointment" ->
               IF r.id \in 1..Len(appointments) THEN {appointments[r.id]} ELSE {}

\* The row session s submitted, under the key its INSERT was given.
SubmittedRow(s) ==
    LET r == last[s]
    IN  CASE r.op = "add_patient" -> PatientRow(r.id, r.params)
          [] r.op = "add_doctor" -> DoctorRow(r.id, r.params)
          [] r.op = "book_appointment" -> AppointmentRow(r.id, r.params)

\* No two rows of a table share a key.
KeysDistinct ==
    /\ \A i, j \in 1..Len(patients) :
          patients[i].patient_id = patients[j].patient_id => i = j
    /\ \A i, j \in 1..Len(doctors) :
          doctors[i].doctor_id = doctors[j].doctor_id => i = j
    /\ \A i, j \in 1..Len(appointments) :
          appointments[i].appointment_id = appointments[j].appointment_id => i = j

\* C11: when two sessions submit write forms at the same time, in every
\* interleaving of their statements the row of each session that was told of
\* its success is stored and holds exactly the values that session submitted,
\* the two rows have distinct keys, and no two rows of a table share a key.
C11_BothRowsStored ==
    /\ \A s \in Sessions : Submitted(s) => StoredRow(s) = {SubmittedRow(s)}
    /\ \A s, t \in Sessions :
          (s # t /\ Submitted(s) /\ Submitted(t) /\ last[s].op = last[t].op)
              => last[s].id # last[t].id
    /\ KeysDistinct

\* Both sessions have added a patient, with different names, and the second
\* session's row has the smaller key.
C11_Witness ==
    /\ \A s \in Sessions : Submitted(s) /\ last[s].op = "add_patient"
    /\ last[1].params # last[2].params
    /\ last[2].id < last[1].id
    /\ Len(patients) = Len(SeedPatients) + 2

\* init_db has returned in session s.
InitDbReturned(s) == pc[s] \in {"page", "commit", "done"}

\* C12: when two sessions run init_db at the same time, in every interleaving
\* of their statements the store holds exactly one copy of the seed data once
\* both calls have returned: 5 departments, and each seed doctor, patient and
\* appointment in one row only.
C12_SeededOnce ==
    (\A s \in Sessions : InitDbReturned(s)) =>
        /\ Len(departments) = Len(SeedDepartments)
        /\ \A i \in 1..Len(SeedDoctors) :
              Cardinality({j \in 1..Len(doctors) :
                              doctors[j] = DoctorRow(j, SeedDoctors[i])}) = 1
        /\ \A i \in 1..Len(SeedPatients) :
              Cardinality({j \in 1..Len(patients) :
                              patients[j] = PatientRow(j, SeedPatients[i])}) = 1
        /\ \A i \in 1..Len(SeedAppointments) :
              Cardinality({j \in 1..Len(appointments) :
                              appointments[j] = AppointmentRow(j, SeedAppointments[i])}) = 1

-----------------------------------------------------------------------------
(* Referential integrity (Spec) *)

\* C13: in every state reached from bootstrap by form submissions, each
\* appointments row names an existing patients row and an existing doctors
\* row, so the inner-join listing of the Appointments page shows as many rows
\* as the table holds.
C13_ReferentialIntegrity ==
    /\ \A i \in 1..Len(appointments) :
          /\ \E j \in 1..Len(patients) :
                patients[j].patient_id = appointments[i].patient_id
          /\ \E k \in 1..Len(doctors) :
                doctors[k].doctor_id = appointments[i].doctor_id
    /\ Len(JoinedAppointments) = Len(appointments)

\* The Book Appointment form has stored an appointment for a patient that the
\* Add Patient form added.
C13_Witness ==
    /\ pc = "start"
    /\ last.op = "book_appointment"
    /\ last.patient > Len(SeedPatients)
    /\ Len(appointments) = Len(SeedAppointments) + 1
    /\ appointments[Len(appointments)].patient_id = last.patient
    /\ Len(AppointmentListing("All")) = Len(appointments)

====
